---- MODULE Spec2Model ----
(***************************************************************************)
(* Model of the allocation engine of run.py: the tiered-interest evaluator *)
(* (calculate_bank_interest), the LP formulation and solve/fallback        *)
(* (create_optimization_problem, optimize_deposits), the greedy allocator  *)
(* (simple_allocation) and the salary search                               *)
(* (optimize_with_salary_constraint).                                      *)
(*                                                                         *)
(* Amounts are whole currency units.  A rate is a whole number of rate     *)
(* units (say percent), so an interest figure is in rate-units x currency. *)
(* Python's x / 12 and (x / y) * 100 are kept as exact fractions           *)
(* [num, den]; floating-point rounding is not modelled.  A bank's name is  *)
(* its position in the (insertion-ordered) banks_data dictionary.          *)
(***************************************************************************)
EXTENDS Integers, Sequences, FiniteSets, TLC

VARIABLES
    banks_data,             \* input: sequence of [tiers, requires_salary]
    total_investment,       \* input
    pc,                     \* "idle" | "phase2" | "done"
    entry,                  \* which function the caller invoked
    path,                   \* branch optimize_deposits returned from
    ret,                    \* what reached the caller
    initial_results,        \* optimize_with_salary_constraint locals
    salary_requiring_banks,
    idx,
    best_result,
    best_interest,
    candidates,             \* history: the result of every phase-2 trial
    ev_tiers,               \* evaluator harness: the tier schedule
    ev_calls                \* evaluator harness: the calls made, newest last

vars == <<banks_data, total_investment, pc, entry, path, ret, initial_results,
          salary_requiring_banks, idx, best_result, best_interest, candidates,
          ev_tiers, ev_calls>>

-----------------------------------------------------------------------------
(* Bounds of the model *)

MaxBanks == 2
MaxTiers == 2
MaxRate == 2
MaxAmount == 2
MaxInvestment == 3
MaxEvalTiers == 2
MaxDeposit == 4

-----------------------------------------------------------------------------
(* Helpers *)

Min(a, b) == IF a <= b THEN a ELSE b

RECURSIVE SeqSum(_)
SeqSum(s) == IF s = <<>> THEN 0 ELSE Head(s) + SeqSum(Tail(s))

\* Python's None
None == 0

NoneValue == [kind |-> "None"]

Raise(exc) == [kind |-> "raise", exc |-> exc]

\* x / 12 as an exact fraction
Div12(x) == [num |-> x, den |-> 12]

-----------------------------------------------------------------------------
(* calculate_bank_interest *)

BreakdownEntry(amount_in_tier, rate) ==
    [amount_in_tier |-> amount_in_tier,
     tier_rate |-> rate,
     tier_interest |-> amount_in_tier * rate,
     monthly_interest |-> Div12(amount_in_tier * rate)]

RECURSIVE TierLoop(_, _, _, _, _)
TierLoop(bank_tiers, i, remaining_amount, total_interest, breakdown) ==
    IF i > Len(bank_tiers)
    THEN [total_interest |-> total_interest, breakdown |-> breakdown]
    ELSE LET tier == bank_tiers[i]
             amount_in_tier == Min(remaining_amount, tier.amount)
         IN  IF amount_in_tier <= 0
             THEN [total_interest |-> total_interest, breakdown |-> breakdown]
             ELSE TierLoop(bank_tiers, i + 1,
                           remaining_amount - amount_in_tier,
                           total_interest + amount_in_tier * tier.rate,
                           Append(breakdown,
                                  BreakdownEntry(amount_in_tier, tier.rate)))

\* A bracket table read as "the whole deposit earns the rate of the bracket it
\* reaches" instead of marginally.
RECURSIVE FlatBracketLoop(_, _, _, _)
FlatBracketLoop(bank_tiers, i, deposit_amount, remaining_amount) ==
    IF i > Len(bank_tiers) \/ bank_tiers[i].amount <= 0
    THEN [total_interest |-> 0, breakdown |-> <<>>]
    ELSE IF remaining_amount <= bank_tiers[i].amount
         THEN [total_interest |-> deposit_amount * bank_tiers[i].rate,
               breakdown |-> <<BreakdownEntry(deposit_amount, bank_tiers[i].rate)>>]
         ELSE FlatBracketLoop(bank_tiers, i + 1, deposit_amount,
                              remaining_amount - bank_tiers[i].amount)

calculate_bank_interest_flat(deposit_amount, bank_tiers) ==
    IF deposit_amount <= 0
    THEN [total_interest |-> 0, breakdown |-> <<>>]
    ELSE FlatBracketLoop(bank_tiers, 1, deposit_amount, deposit_amount)

\* The loop without its break: an exhausted or empty tier is skipped.
RECURSIVE SkipLoop(_, _, _, _, _)
SkipLoop(bank_tiers, i, remaining_amount, total_interest, breakdown) ==
    IF i > Len(bank_tiers)
    THEN [total_interest |-> total_interest, breakdown |-> breakdown]
    ELSE LET tier == bank_tiers[i]
             amount_in_tier == Min(remaining_amount, tier.amount)
         IN  IF amount_in_tier <= 0
             THEN SkipLoop(bank_tiers, i + 1, remaining_amount,
                           total_interest, breakdown)
             ELSE SkipLoop(bank_tiers, i + 1,
                           remaining_amount - amount_in_tier,
                           total_interest + amount_in_tier * tier.rate,
                           Append(breakdown,
                                  BreakdownEntry(amount_in_tier, tier.rate)))

calculate_bank_interest_skip(deposit_amount, bank_tiers) ==
    IF deposit_amount <= 0
    THEN [total_interest |-> 0, breakdown |-> <<>>]
    ELSE SkipLoop(bank_tiers, 1, deposit_amount, 0, <<>>)

calculate_bank_interest(deposit_amount, bank_tiers) ==
    IF deposit_amount <= 0
    THEN [total_interest |-> 0, breakdown |-> <<>>]
    ELSE TierLoop(bank_tiers, 1, deposit_amount, 0, <<>>)

-----------------------------------------------------------------------------
(* create_optimization_problem *)

max_deposit(tiers) == SeqSum([j \in DOMAIN tiers |-> tiers[j].amount])

\* The objective without its sign: the solver then minimises the interest.
first_tier_rate_unnegated(tiers) == tiers[1].rate

\* The coefficient taken from the last tier instead of the first.
first_tier_rate_last(tiers) == -tiers[Len(tiers)].rate

first_tier_rate(tiers) == -tiers[1].rate

bound(tiers, total) == <<0, Min(max_deposit(tiers), total)>>

\* banks is the simplified mapping: bank name -> tiers.  tiers[0] of an empty
\* tier list raises IndexError.
create_optimization_problem(banks, total) ==
    IF \E i \in DOMAIN banks : Len(banks[i]) = 0
    THEN Raise("IndexError")
    ELSE [kind |-> "problem",
          c |-> [i \in DOMAIN banks |-> first_tier_rate(banks[i])],
          A_eq |-> [i \in DOMAIN banks |-> 1],
          b_eq |-> total,
          bounds |-> [i \in DOMAIN banks |-> bound(banks[i], total)],
          bank_names |-> [i \in DOMAIN banks |-> i]]

-----------------------------------------------------------------------------
(* linprog: the external solver.  It returns an optimal solution of         *)
(*   minimise c.x  subject to  A_eq.x = b_eq,  lb <= x <= ub               *)
(* or reports failure when there is none.  Any optimal solution on the      *)
(* whole-unit grid may be the one returned.  What the library does with an  *)
(* empty problem (no variables) is left open: it may raise, report failure, *)
(* or, when b_eq = 0, succeed with the empty vector.                        *)

Dot(a, x) == SeqSum([i \in DOMAIN a |-> a[i] * x[i]])

Feasible(problem) ==
    {x \in [DOMAIN problem.c -> 0..problem.b_eq] :
        /\ \A i \in DOMAIN x :
              problem.bounds[i][1] <= x[i] /\ x[i] <= problem.bounds[i][2]
        /\ Dot(problem.A_eq, x) = problem.b_eq}

OptimizeResult(success, x) ==
    [kind |-> "OptimizeResult", success |-> success, x |-> x]

linprog(problem) ==
    IF Len(problem.c) = 0
    THEN {Raise("ValueError"), OptimizeResult(FALSE, <<>>)}
         \cup (IF problem.b_eq = 0 THEN {OptimizeResult(TRUE, <<>>)} ELSE {})
    ELSE LET F == Feasible(problem)
         IN  IF F = {}
             THEN {OptimizeResult(FALSE, <<>>)}
             ELSE {OptimizeResult(TRUE, x) :
                      x \in {y \in F : \A z \in F :
                                Dot(problem.c, y) <= Dot(problem.c, z)}}

-----------------------------------------------------------------------------
(* The result dictionary both allocators build.  (total / investment) * 100 *)
(* raises ZeroDivisionError when the investment is 0.                       *)

ResultDict(allocations, total_interest, total) ==
    IF total = 0
    THEN Raise("ZeroDivisionError")
    ELSE [kind |-> "result",
          allocations |-> allocations,
          total_annual_interest |-> total_interest,
          total_monthly_interest |-> Div12(total_interest),
          effective_rate |-> [num |-> total_interest * 100, den |-> total]]

-----------------------------------------------------------------------------
(* simple_allocation *)

RECURSIVE Flatten(_, _)
Flatten(banks, i) ==
    IF i > Len(banks)
    THEN <<>>
    ELSE [j \in 1..Len(banks[i]) |->
             [bank_name |-> i,
              rate |-> banks[i][j].rate,
              amount |-> banks[i][j].amount]]
         \o Flatten(banks, i + 1)

\* list.sort(key=rate, reverse=True): stable, so equal rates keep their order.
RankDesc(s, i) ==
    Cardinality({j \in DOMAIN s :
                    \/ s[j].rate > s[i].rate
                    \/ s[j].rate = s[i].rate /\ j < i}) + 1

SortByRate(s) ==
    [k \in DOMAIN s |-> s[CHOOSE i \in DOMAIN s : RankDesc(s, i) = k]]

Position(allocations, bank_name) ==
    CHOOSE k \in DOMAIN allocations : allocations[k].bank_name = bank_name

NewAllocation(bank_name) ==
    [bank_name |-> bank_name, deposit |-> 0, annual_interest |-> 0,
     monthly_interest |-> 0, breakdown |-> <<>>]

\* The deposit assigned where it is accumulated.
AddToAllocationAssign(a, amount_for_tier, rate) ==
    [bank_name |-> a.bank_name,
     deposit |-> amount_for_tier,
     annual_interest |-> a.annual_interest + amount_for_tier * rate,
     monthly_interest |-> Div12(a.annual_interest + amount_for_tier * rate),
     breakdown |-> Append(a.breakdown, BreakdownEntry(amount_for_tier, rate))]

AddToAllocation(a, amount_for_tier, rate) ==
    [bank_name |-> a.bank_name,
     deposit |-> a.deposit + amount_for_tier,
     annual_interest |-> a.annual_interest + amount_for_tier * rate,
     monthly_interest |-> Div12(a.annual_interest + amount_for_tier * rate),
     breakdown |-> Append(a.breakdown, BreakdownEntry(amount_for_tier, rate))]

RECURSIVE AllocLoop(_, _, _, _, _)
AllocLoop(all_tiers, i, remaining_investment, allocations, total_interest) ==
    IF i > Len(all_tiers) \/ remaining_investment <= 0
    THEN [allocations |-> allocations, total_interest |-> total_interest]
    ELSE LET tier == all_tiers[i]
             amount_for_tier == Min(remaining_investment, tier.amount)
             present == \E k \in DOMAIN allocations :
                            allocations[k].bank_name = tier.bank_name
             allocs == IF present
                       THEN allocations
                       ELSE Append(allocations, NewAllocation(tier.bank_name))
             k == Position(allocs, tier.bank_name)
         IN  AllocLoop(all_tiers, i + 1,
                       remaining_investment - amount_for_tier,
                       [allocs EXCEPT ![k] =
                           AddToAllocation(@, amount_for_tier, tier.rate)],
                       total_interest + amount_for_tier * tier.rate)

simple_allocation(banks, total) ==
    LET all_tiers == SortByRate(Flatten(banks, 1))
        done == AllocLoop(all_tiers, 1, total, <<>>, 0)
    IN  ResultDict(done.allocations, done.total_interest, total)

-----------------------------------------------------------------------------
(* optimize_deposits *)

\* deposit_amount > 0.01
AboveThreshold(deposit_amount) == 100 * deposit_amount > 1

RECURSIVE CollectLoop(_, _, _, _, _)
CollectLoop(banks, x, i, optimization_result, total_interest) ==
    IF i > Len(x)
    THEN [allocations |-> optimization_result, total_interest |-> total_interest]
    ELSE IF AboveThreshold(x[i])
         THEN LET interest_calc == calculate_bank_interest(x[i], banks[i])
              IN  CollectLoop(banks, x, i + 1,
                      Append(optimization_result,
                             [bank_name |-> i,
                              deposit |-> x[i],
                              annual_interest |-> interest_calc.total_interest,
                              monthly_interest |->
                                  Div12(interest_calc.total_interest),
                              breakdown |-> interest_calc.breakdown]),
                      total_interest + interest_calc.total_interest)
         ELSE CollectLoop(banks, x, i + 1, optimization_result, total_interest)

\* What optimize_deposits returns once the solver has answered with r; path
\* records the branch taken.
AfterSolve(banks, total, r) ==
    IF r.kind = "raise"
    THEN [ret |-> simple_allocation(banks, total), path |-> "except"]
    ELSE IF ~r.success
    THEN [ret |-> simple_allocation(banks, total), path |-> "not_success"]
    ELSE LET got == CollectLoop(banks, r.x, 1, <<>>, 0)
             res == ResultDict(got.allocations, got.total_interest, total)
         IN  IF res.kind = "raise"
             THEN [ret |-> simple_allocation(banks, total), path |-> "except"]
             ELSE [ret |-> res, path |-> "lp"]

\* The set of outcomes of one call: create_optimization_problem runs before
\* the try block, so what it raises reaches the caller.
optimize_deposits(data, total) ==
    LET simplified_banks_data == [i \in DOMAIN data |-> data[i].tiers]
        problem == create_optimization_problem(simplified_banks_data, total)
    IN  IF problem.kind = "raise"
        THEN {[ret |-> problem, path |-> "formulation"]}
        ELSE {AfterSolve(simplified_banks_data, total, r) :
                 r \in linprog(problem)}

-----------------------------------------------------------------------------
(* optimize_with_salary_constraint *)

WithChosen(result, chosen_bank) ==
    [kind |-> "result",
     allocations |-> result.allocations,
     total_annual_interest |-> result.total_annual_interest,
     total_monthly_interest |-> result.total_monthly_interest,
     effective_rate |-> result.effective_rate,
     chosen_salary_bank |-> chosen_bank]

AllocationNames(result) ==
    [k \in DOMAIN result.allocations |-> result.allocations[k].bank_name]

IsSalaryBank(data, bank_name) == data[bank_name].requires_salary

\* The list comprehension of phase 1, in the order of the allocations' keys.
SalaryRequiringBanks(data, result) ==
    LET RequiresSalary(bank_name) == IsSalaryBank(data, bank_name)
    IN  SelectSeq(AllocationNames(result), RequiresSalary)

\* The copy that leaves every salary bank as it is.
ModifiedBanksDataNone(data, chosen_bank) == data

ModifiedBanksData(data, chosen_bank) ==
    [i \in DOMAIN data |->
        IF data[i].requires_salary /\ i # chosen_bank
        THEN [tiers |-> [j \in DOMAIN data[i].tiers |->
                            [rate |-> 0, amount |-> data[i].tiers[j].amount]],
              requires_salary |-> TRUE]
        ELSE data[i]]

-----------------------------------------------------------------------------
(* Inputs *)

Tiers == [rate : 0..MaxRate, amount : 0..MaxAmount]

TierLists(n) == UNION {[1..k -> Tiers] : k \in 0..n}

Banks == [tiers : TierLists(MaxTiers), requires_salary : BOOLEAN]

BankSets == UNION {[1..n -> Banks] : n \in 0..MaxBanks}

Pending == [kind |-> "pending"]

\* The schedule and the deposit of the short-circuit example.
ExampleTiers ==
    <<[rate |-> 1, amount |-> 100],
      [rate |-> 0, amount |-> 0],
      [rate |-> 5, amount |-> 1000]>>

EvalDeposits == ((0 - 1)..MaxDeposit) \cup {500}

-----------------------------------------------------------------------------
(* The optimizer: a caller invokes one of the three entry points on the     *)
(* account data and the investment.                                         *)

Init ==
    /\ banks_data \in BankSets
    /\ total_investment \in 0..MaxInvestment
    /\ pc = "idle"
    /\ entry = "none"
    /\ path = "none"
    /\ ret = Pending
    /\ initial_results = Pending
    /\ salary_requiring_banks = <<>>
    /\ idx = 0
    /\ best_result = NoneValue
    /\ best_interest = 0
    /\ candidates = <<>>
    /\ ev_tiers = <<>>
    /\ ev_calls = <<>>

CallSimpleAllocation ==
    /\ pc = "idle"
    /\ pc' = "done"
    /\ entry' = "simple_allocation"
    /\ ret' = simple_allocation([i \in DOMAIN banks_data |-> banks_data[i].tiers],
                                total_investment)
    /\ UNCHANGED <<banks_data, total_investment, path, initial_results,
                   salary_requiring_banks, idx, best_result, best_interest,
                   candidates, ev_tiers, ev_calls>>

CallOptimizeDeposits ==
    /\ pc = "idle"
    /\ \E o \in optimize_deposits(banks_data, total_investment) :
          /\ ret' = o.ret
          /\ path' = o.path
    /\ pc' = "done"
    /\ entry' = "optimize_deposits"
    /\ UNCHANGED <<banks_data, total_investment, initial_results,
                   salary_requiring_banks, idx, best_result, best_interest,
                   candidates, ev_tiers, ev_calls>>

\* Phase 1, up to the return or the entry of the phase-2 loop.
SalaryPhase1 ==
    /\ pc = "idle"
    /\ entry' = "optimize_with_salary_constraint"
    /\ \E o \in optimize_deposits(banks_data, total_investment) :
          LET r == o.ret
              s == IF r.kind = "result"
                   THEN SalaryRequiringBanks(banks_data, r)
                   ELSE <<>>
          IN  /\ path' = o.path
              /\ initial_results' = r
              /\ salary_requiring_banks' = s
              /\ IF r.kind = "raise"
                 THEN pc' = "done" /\ ret' = r /\ idx' = idx
                 ELSE IF Len(s) = 0
                 THEN pc' = "done" /\ ret' = WithChosen(r, None) /\ idx' = idx
                 ELSE IF Len(s) = 1
                 THEN pc' = "done" /\ ret' = WithChosen(r, s[1]) /\ idx' = idx
                 ELSE pc' = "phase2" /\ ret' = ret /\ idx' = 1
    /\ best_result' = NoneValue
    /\ best_interest' = 0
    /\ UNCHANGED <<banks_data, total_investment, candidates, ev_tiers, ev_calls>>

\* One iteration of the phase-2 loop.
SalaryTryBank ==
    /\ pc = "phase2"
    /\ idx <= Len(salary_requiring_banks)
    /\ LET chosen_bank == salary_requiring_banks[idx]
           modified_banks_data == ModifiedBanksData(banks_data, chosen_bank)
       IN  \E o \in optimize_deposits(modified_banks_data, total_investment) :
              LET result == o.ret
              IN  /\ path' = o.path
                  /\ IF result.kind = "raise"
                     THEN /\ pc' = "done"
                          /\ ret' = result
                          /\ UNCHANGED <<idx, best_result, best_interest,
                                         candidates>>
                     ELSE /\ pc' = pc
                          /\ ret' = ret
                          /\ idx' = idx + 1
                          /\ candidates' =
                                Append(candidates, WithChosen(result, chosen_bank))
                          /\ IF result.total_annual_interest > best_interest
                             THEN /\ best_interest' = result.total_annual_interest
                                  /\ best_result' = WithChosen(result, chosen_bank)
                             ELSE UNCHANGED <<best_result, best_interest>>
    /\ UNCHANGED <<banks_data, total_investment, entry, initial_results,
                   salary_requiring_banks, ev_tiers, ev_calls>>

SalaryReturn ==
    /\ pc = "phase2"
    /\ idx > Len(salary_requiring_banks)
    /\ pc' = "done"
    /\ ret' = best_result
    /\ UNCHANGED <<banks_data, total_investment, entry, path, initial_results,
                   salary_requiring_banks, idx, best_result, best_interest,
                   candidates, ev_tiers, ev_calls>>

Next ==
    \/ CallSimpleAllocation
    \/ CallOptimizeDeposits
    \/ SalaryPhase1
    \/ SalaryTryBank
    \/ SalaryReturn

Spec == Init /\ [][Next]_vars

-----------------------------------------------------------------------------
(* The evaluator on its own: a schedule, and deposits evaluated against it. *)
(* ev_calls keeps the last two calls.                                       *)

InitEval ==
    /\ ev_tiers \in TierLists(MaxEvalTiers) \cup {ExampleTiers}
    /\ ev_calls = <<>>
    /\ banks_data = <<>>
    /\ total_investment = 0
    /\ pc = "eval"
    /\ entry = "calculate_bank_interest"
    /\ path = "none"
    /\ ret = Pending
    /\ initial_results = Pending
    /\ salary_requiring_banks = <<>>
    /\ idx = 0
    /\ best_result = NoneValue
    /\ best_interest = 0
    /\ candidates = <<>>

Evaluate ==
    /\ pc = "eval"
    /\ \E d \in EvalDeposits :
          LET call == [deposit_amount |-> d,
                       result |-> calculate_bank_interest(d, ev_tiers)]
          IN  ev_calls' = IF Len(ev_calls) < 2
                          THEN Append(ev_calls, call)
                          ELSE <<ev_calls[2], call>>
    /\ UNCHANGED <<banks_data, total_investment, pc, entry, path, ret,
                   initial_results, salary_requiring_banks, idx, best_result,
                   best_interest, candidates, ev_tiers>>

NextEval == Evaluate

SpecEval == InitEval /\ [][NextEval]_vars

-----------------------------------------------------------------------------
(* Vocabulary of the properties *)

TiersOf(data) == [i \in DOMAIN data |-> data[i].tiers]

SingleTier(data) == \A i \in DOMAIN data : Len(data[i].tiers) = 1

TotalCapacity(data) ==
    SeqSum([i \in DOMAIN data |-> max_deposit(data[i].tiers)])

\* Every way of splitting at most `total` over the banks within their capacities.
Splits(data, total) ==
    {d \in [DOMAIN data -> 0..total] :
        /\ \A i \in DOMAIN data : d[i] <= max_deposit(data[i].tiers)
        /\ SeqSum(d) <= total}

ExactSplits(data, total) == {d \in Splits(data, total) : SeqSum(d) = total}

\* The tiered interest a split earns.
TieredInterest(data, d) ==
    SeqSum([i \in DOMAIN data |->
               calculate_bank_interest(d[i], data[i].tiers).total_interest])

\* The flat objective of the linear program: every unit at the first tier's rate.
FirstTierInterest(data, d) ==
    SeqSum([i \in DOMAIN data |->
               IF d[i] = 0 THEN 0 ELSE data[i].tiers[1].rate * d[i]])

\* The deposits a result records, as a split (0 for a bank it leaves out).
DepositsOf(data, result) ==
    [i \in DOMAIN data |->
        SeqSum([k \in DOMAIN result.allocations |->
                   IF result.allocations[k].bank_name = i
                   THEN result.allocations[k].deposit
                   ELSE 0])]

Returned(function) == pc = "done" /\ entry = function

-----------------------------------------------------------------------------
(* C1: the greedy allocator's total_annual_interest is the maximum tiered   *)
(* interest over all splits of at most total_investment within the banks'   *)
(* capacities, for every positive investment and any tier order.            *)
C1_GreedyIsTrueMaximum ==
    (Returned("simple_allocation") /\ total_investment > 0)
    => /\ ret.kind = "result"
       /\ \A d \in Splits(banks_data, total_investment) :
             TieredInterest(banks_data, d) <= ret.total_annual_interest
       /\ \E d \in Splits(banks_data, total_investment) :
             TieredInterest(banks_data, d) = ret.total_annual_interest

(* C2: with total_investment = 0 the optimizer (optimize_deposits, and      *)
(* optimize_with_salary_constraint on top of it) returns a well-formed      *)
(* result: no allocations, both interest totals 0, effective rate 0, and no *)
(* error reaches the caller.                                                *)
C2_ZeroInvestmentWellFormed ==
    (/\ pc = "done"
     /\ entry \in {"optimize_deposits", "optimize_with_salary_constraint"}
     /\ total_investment = 0)
    => /\ ret.kind = "result"
       /\ ret.allocations = <<>>
       /\ ret.total_annual_interest = 0
       /\ ret.total_monthly_interest.num = 0
       /\ ret.effective_rate.num = 0

(* C3: when phase 1 allocates to two or more salary-requiring banks, the    *)
(* search returns one of the candidate results: one whose                   *)
(* total_annual_interest is at least every candidate's, and the first       *)
(* enumerated among those attaining that maximum, also when all are equal.  *)
(* Stated for a phase 1 whose every allocation holds a positive deposit.    *)
C3_BestCandidateReturned ==
    (/\ Returned("optimize_with_salary_constraint")
     /\ Len(salary_requiring_banks) >= 2
     /\ \A k \in DOMAIN initial_results.allocations :
           initial_results.allocations[k].deposit > 0
     /\ Len(candidates) = Len(salary_requiring_banks))
    => /\ ret.kind = "result"
       /\ \A k \in DOMAIN candidates :
             candidates[k].total_annual_interest <= ret.total_annual_interest
       /\ \E k \in DOMAIN candidates :
             /\ ret = candidates[k]
             /\ \A j \in 1..(k - 1) :
                   candidates[j].total_annual_interest
                       < candidates[k].total_annual_interest

(* C4: optimize_deposits never surfaces an error, and whenever formulating  *)
(* or solving the linear program fails it returns exactly the greedy        *)
(* allocator's result.  Stated for positive investments; the zero           *)
(* investment is C2's case.                                                 *)
C4_FailureFallsBackToGreedy ==
    (Returned("optimize_deposits") /\ total_investment > 0)
    => /\ ret.kind = "result"
       /\ path # "lp"
             => ret = simple_allocation(TiersOf(banks_data), total_investment)

(* C5: in a result of optimize_with_salary_constraint every salary-         *)
(* requiring bank other than chosen_salary_bank has annual_interest 0 (or   *)
(* is absent), and with chosen_salary_bank None no salary-requiring bank    *)
(* appears in the allocations.                                              *)
C5_AtMostOneSalaryBankActive ==
    (Returned("optimize_with_salary_constraint") /\ ret.kind = "result")
    => \A k \in DOMAIN ret.allocations :
          LET a == ret.allocations[k]
          IN  IsSalaryBank(banks_data, a.bank_name)
                 => /\ ret.chosen_salary_bank # None
                    /\ a.bank_name # ret.chosen_salary_bank
                          => a.annual_interest = 0

\* A result of phase 2 that holds a deposit in a salary bank that is not the
\* chosen one, next to a chosen bank that earns interest.
C5_Witness ==
    /\ Returned("optimize_with_salary_constraint")
    /\ ret.kind = "result"
    /\ Len(salary_requiring_banks) >= 2
    /\ \E k, m \in DOMAIN ret.allocations :
          /\ ret.allocations[k].bank_name = ret.chosen_salary_bank
          /\ ret.allocations[k].annual_interest > 0
          /\ ret.allocations[m].bank_name # ret.chosen_salary_bank
          /\ IsSalaryBank(banks_data, ret.allocations[m].bank_name)
          /\ ret.allocations[m].deposit > 0
          /\ banks_data[ret.allocations[m].bank_name].tiers[1].rate > 0

(* C6: for a positive deposit the evaluator walks the tiers in order, takes *)
(* min(remaining, capacity) from each and stops at the first tier whose     *)
(* consumable amount is <= 0, visiting none after it; the example schedule  *)
(* with deposit 500 yields 100 * 1 in one breakdown entry; a deposit <= 0   *)
(* yields interest 0 and an empty breakdown.                                *)
PrefixCapacity(tiers, j) ==
    SeqSum([i \in 1..(j - 1) |-> tiers[i].amount])

Consumable(tiers, d, j) == Min(d - PrefixCapacity(tiers, j), tiers[j].amount)

Visited(tiers, d, j) == \A i \in 1..j : Consumable(tiers, d, i) > 0

C6_OrderedWalkWithHardStop ==
    \A c \in DOMAIN ev_calls :
        LET d == ev_calls[c].deposit_amount
            r == ev_calls[c].result
            n == Cardinality({j \in DOMAIN ev_tiers : Visited(ev_tiers, d, j)})
        IN  /\ d <= 0 => r.total_interest = 0 /\ r.breakdown = <<>>
            /\ d > 0 =>
                  /\ Len(r.breakdown) = n
                  /\ \A j \in 1..n :
                        /\ Visited(ev_tiers, d, j)
                        /\ r.breakdown[j].amount_in_tier
                              = Consumable(ev_tiers, d, j)
                        /\ r.breakdown[j].tier_rate = ev_tiers[j].rate
                        /\ r.breakdown[j].tier_interest
                              = Consumable(ev_tiers, d, j) * ev_tiers[j].rate
                  /\ r.total_interest
                        = SeqSum([j \in 1..n |->
                                     Consumable(ev_tiers, d, j) * ev_tiers[j].rate])
            /\ (ev_tiers = ExampleTiers /\ d = 500) =>
                  r.total_interest = 100 * 1 /\ Len(r.breakdown) = 1

\* The example: a zero-capacity tier halts the walk before a tier with
\* capacity, while money remains.
C6_Witness ==
    \E c \in DOMAIN ev_calls :
        /\ ev_tiers = ExampleTiers
        /\ ev_calls[c].deposit_amount = 500
        /\ ev_calls[c].result.total_interest = 100

(* C7: with non-negative rates and capacities, for deposits d1 <= d2        *)
(* (values <= 0 included) the interest of d1 is at most the interest of d2. *)
C7_MonotoneInDeposit ==
    \A a, b \in DOMAIN ev_calls :
        ev_calls[a].deposit_amount <= ev_calls[b].deposit_amount
            => ev_calls[a].result.total_interest
                  <= ev_calls[b].result.total_interest

\* Two calls on a two-tier schedule, the larger deposit spilling into the
\* second, lower-rate tier and earning strictly more.
C7_Witness ==
    /\ Len(ev_calls) = 2
    /\ Len(ev_tiers) = 2
    /\ ev_tiers[1].rate > ev_tiers[2].rate
    /\ ev_calls[1].deposit_amount > 0
    /\ ev_calls[1].deposit_amount < ev_calls[2].deposit_amount
    /\ Len(ev_calls[2].result.breakdown) = 2
    /\ ev_calls[1].result.total_interest < ev_calls[2].result.total_interest

(* C8: when every bank has exactly one tier and the investment is positive, *)
(* the result of the LP path has the total_annual_interest of the greedy    *)
(* allocator on the same input.                                             *)
C8_LPAgreesWithGreedyOnSingleTier ==
    (/\ Returned("optimize_deposits")
     /\ path = "lp"
     /\ total_investment > 0
     /\ SingleTier(banks_data))
    => ret.total_annual_interest
          = simple_allocation(TiersOf(banks_data), total_investment)
                .total_annual_interest

\* Two single-tier banks of different rates with more capacity than money.
C8_Witness ==
    /\ Returned("optimize_deposits")
    /\ path = "lp"
    /\ SingleTier(banks_data)
    /\ Len(banks_data) = 2
    /\ banks_data[1].tiers[1].rate < banks_data[2].tiers[1].rate
    /\ TotalCapacity(banks_data) > total_investment
    /\ ret.total_annual_interest > 0

(* C9: when the total capacity is at least the positive investment, the     *)
(* deposits a result records sum to the investment and each lies in         *)
(* [0, min(the bank's capacity, investment)]; on the LP path, on the greedy *)
(* path, and in every result of optimize_with_salary_constraint.            *)
C9_DepositsSumToInvestment ==
    (/\ pc = "done"
     /\ ret.kind = "result"
     /\ total_investment > 0
     /\ TotalCapacity(banks_data) >= total_investment)
    => /\ SeqSum([k \in DOMAIN ret.allocations |-> ret.allocations[k].deposit])
             = total_investment
       /\ \A k \in DOMAIN ret.allocations :
             LET a == ret.allocations[k]
             IN  /\ 0 <= a.deposit
                 /\ a.deposit <= max_deposit(banks_data[a.bank_name].tiers)
                 /\ a.deposit <= total_investment

\* A greedy result that fills two tiers of one bank and part of another bank.
C9_Witness ==
    /\ Returned("simple_allocation")
    /\ ret.kind = "result"
    /\ TotalCapacity(banks_data) > total_investment
    /\ Len(ret.allocations) = 2
    /\ \E k \in DOMAIN ret.allocations :
          Len(ret.allocations[k].breakdown) = 2

(* C10: on the LP path with a positive investment, total_annual_interest is *)
(* at least the tiered interest of every split that respects the capacity   *)
(* bounds and sums to the investment.  Stated where the linear program has  *)
(* a single optimal solution, so that nothing rests on the solver's choice. *)
C10_LPResultIsTieredMaximum ==
    (/\ Returned("optimize_deposits")
     /\ path = "lp"
     /\ total_investment > 0
     /\ Cardinality(optimize_deposits(banks_data, total_investment)) = 1)
    => \A d \in ExactSplits(banks_data, total_investment) :
          TieredInterest(banks_data, d) <= ret.total_annual_interest

(* C10, amended: on the LP path with a positive investment, the deposits of *)
(* the result maximize the flat objective, the sum of first-tier rate times *)
(* deposit, over every split that respects the capacity bounds and sums to  *)
(* the investment; the reported total_annual_interest is the tiered         *)
(* interest of those deposits.                                              *)
C10_LPResultMaximizesFirstTierObjective ==
    (Returned("optimize_deposits") /\ path = "lp" /\ total_investment > 0)
    => LET x == DepositsOf(banks_data, ret)
       IN  /\ x \in ExactSplits(banks_data, total_investment)
           /\ \A d \in ExactSplits(banks_data, total_investment) :
                 FirstTierInterest(banks_data, d)
                    <= FirstTierInterest(banks_data, x)
           /\ ret.total_annual_interest = TieredInterest(banks_data, x)

\* An LP result on a multi-tier bank whose tiered interest is below what
\* another split earns.
C10_Witness ==
    /\ Returned("optimize_deposits")
    /\ path = "lp"
    /\ total_investment > 0
    /\ \E i \in DOMAIN banks_data : Len(banks_data[i].tiers) = 2
    /\ \E d \in ExactSplits(banks_data, total_investment) :
          TieredInterest(banks_data, d) > ret.total_annual_interest

====
